---- MODULE Spec2Model ----
(***************************************************************************)
(* A model of the smart_ptr library: shared_ptr (src/src/shared_ptr.hpp)   *)
(* and unique_ptr (src/src/unique_ptr.hpp).                                *)
(*                                                                         *)
(* The client program is any sequence of calls on a fixed set of instance  *)
(* slots.  A slot is either not constructed (not in the live set) or holds *)
(* a live instance with its private fields.  The heap holds the objects    *)
(* handed to the owners and the size_t counter cells that shared_ptr       *)
(* allocates.  Heap identities are never reused, so that "how often was    *)
(* this object deleted" is a fact of the state.                            *)
(***************************************************************************)
EXTENDS Naturals, FiniteSets

\* ------------------------------------------------------------------ bounds
\* Number of instance slots of each class.
NumInst == 3
\* Number of objects the client may allocate (new object_type).
MaxObj == 2
\* Number of counter cells shared_ptr may allocate (new size_t(1)).
MaxCell == 2
\* A read of a released counter cell yields any of 0..MaxGarbage.
MaxGarbage == 2

\* size_t is 16 bits wide on the AVR targets of the library.
SizeMod == 65536

Null == 0
Inst == 1..NumInst
Obj == 1..MaxObj
Cell == 1..MaxCell
Garbage == 0..MaxGarbage

VARIABLES
    shared_live,        \* the constructed, not yet destroyed shared_ptr slots
    shared_m_object,    \* shared_ptr::m_object of each slot (Null: nullptr)
    shared_m_use_count, \* shared_ptr::m_use_count of each slot (Null: nullptr)
    unique_live,        \* the constructed, not yet destroyed unique_ptr slots
    unique_m_object,    \* unique_ptr::m_object of each slot
    next_obj,           \* identity of the next object the client allocates
    next_cell,          \* identity of the next counter cell
    cell_val,           \* the size_t held by each counter cell
    cell_deletes,       \* how often each cell was deleted (2: more than once)
    obj_deletes,        \* how often each object was deleted (2: more than once)
    last,               \* the call that produced this state
    thread,             \* per thread: where it is in a call, and its register
    raced               \* two unsynchronised accesses of one counter overlapped

vars == <<shared_live, shared_m_object, shared_m_use_count, unique_live,
          unique_m_object, next_obj, next_cell, cell_val, cell_deletes,
          obj_deletes, last, thread, raced>>

shared_vars == <<shared_live, shared_m_object, shared_m_use_count, next_cell,
                 cell_val, cell_deletes>>
unique_vars == <<unique_live, unique_m_object>>
thread_vars == <<thread, raced>>

\* The threads of a client that shares aliases between two threads.
Thread == {"t1", "t2"}

\* A thread that is not inside a shared_ptr call.
Idle == [pc |-> "idle", self |-> Null, tmp |-> 0]

\* ------------------------------------------------------------------- heap
\* The heap as one value, so that the private helpers are functions on it.
Heap == [val |-> cell_val, cdel |-> cell_deletes, odel |-> obj_deletes]

Once(n) == IF n = 0 THEN 1 ELSE 2

\* *m_use_count as an rvalue.  Reading a released cell is undefined: the
\* read yields the arbitrary value g.
Deref(H, c, g) == IF H.cdel[c] = 0 THEN H.val[c] ELSE g

\* *m_use_count = v.  A write to a released cell leaves nothing behind that
\* a later read could rely on.
Store(H, c, v) == IF H.cdel[c] = 0 THEN [H EXCEPT !.val[c] = v] ELSE H

\* delete m_object (a no-op on nullptr).
delete_object_leak(H, o) == H
delete_object(H, o) ==
    IF o = Null THEN H ELSE [H EXCEPT !.odel[o] = Once(@)]

\* delete m_use_count.
delete_use_count(H, c) == [H EXCEPT !.cdel[c] = Once(@), !.val[c] = 0]

\* new size_t(1) at the fresh cell c.
new_use_count_zero(H, c) == [H EXCEPT !.val[c] = 0]
new_use_count(H, c) == [H EXCEPT !.val[c] = 1]

\* shared_ptr::decrement_use_count of an instance whose fields are o and c.
decrement_use_count_leak(H, o, c, g) ==
    IF c = Null
    THEN H
    ELSE Store(H, c, (Deref(H, c, g) + SizeMod - 1) % SizeMod)
decrement_use_count_early(H, o, c, g) ==
    IF c = Null
    THEN H
    ELSE LET v == (Deref(H, c, g) + SizeMod - 1) % SizeMod
             H1 == Store(H, c, v)
         IN IF v <= 1
            THEN delete_use_count(delete_object(H1, o), c)
            ELSE H1
decrement_use_count(H, o, c, g) ==
    IF c = Null
    THEN H
    ELSE LET v == (Deref(H, c, g) + SizeMod - 1) % SizeMod
             H1 == Store(H, c, v)
         IN IF v = 0
            THEN delete_use_count(delete_object(H1, o), c)
            ELSE H1

\* shared_ptr::increment_use_count of an instance whose counter field is c.
increment_use_count_skip(H, c, g) == H
increment_use_count(H, c, g) ==
    IF c = Null
    THEN H
    ELSE Store(H, c, (Deref(H, c, g) + 1) % SizeMod)

\* The raw pointers a client can pass: nullptr, or a freshly allocated object.
Pointers == {Null} \cup (IF next_obj <= MaxObj THEN {next_obj} ELSE {})

AfterNew(p) == IF p = Null THEN next_obj ELSE next_obj + 1

SetHeap(H) ==
    /\ cell_val' = H.val
    /\ cell_deletes' = H.cdel
    /\ obj_deletes' = H.odel

\* The record of a call: the class, the member, *this and the other operand,
\* and whether the two operands were distinct shared_ptr instances holding
\* the same object when the call began.
Call(cls, op, self, other) ==
    [cls |-> cls, op |-> op, self |-> self, other |-> other,
     aliased |-> /\ cls = "shared_ptr"
                 /\ other # Null
                 /\ other # self
                 /\ {self, other} \subseteq shared_live
                 /\ shared_m_object[self] # Null
                 /\ shared_m_object[self] = shared_m_object[other]]

\* ----------------------------------------------------------------- access
\* shared_ptr::operator bool
shared_bool(i) == shared_m_object[i] # Null

\* shared_ptr::use_count; g is what a read of a released cell yields.
use_count(i, g) ==
    IF shared_m_use_count[i] # Null
    THEN Deref(Heap, shared_m_use_count[i], g)
    ELSE 0

\* unique() that takes an instance without a counter for a sole owner.
unique_of_null(i, g) ==
    IF shared_m_use_count[i] # Null
    THEN Deref(Heap, shared_m_use_count[i], g) = 1
    ELSE TRUE

\* shared_ptr::unique
unique(i, g) ==
    IF shared_m_use_count[i] # Null
    THEN Deref(Heap, shared_m_use_count[i], g) = 1
    ELSE FALSE

\* unique_ptr::operator bool
unique_bool(i) == unique_m_object[i] # Null

\* ------------------------------------------------------------------- init
Init ==
    /\ shared_live = {}
    /\ shared_m_object = [i \in Inst |-> Null]
    /\ shared_m_use_count = [i \in Inst |-> Null]
    /\ unique_live = {}
    /\ unique_m_object = [i \in Inst |-> Null]
    /\ next_obj = 1
    /\ next_cell = 1
    /\ cell_val = [c \in Cell |-> 0]
    /\ cell_deletes = [c \in Cell |-> 0]
    /\ obj_deletes = [o \in Obj |-> 0]
    /\ last = Call("none", "init", Null, Null)
    /\ thread = [t \in Thread |-> Idle]
    /\ raced = FALSE

\* ------------------------------------------------------- shared_ptr calls
\* The field copy and the clearing of the moved-from instance, in the order
\* the move operations perform them: with i = j the clearing comes last.
shared_take_keep(f, i, j) == [f EXCEPT ![i] = f[j]]
shared_take(f, i, j) == [[f EXCEPT ![i] = f[j]] EXCEPT ![j] = Null]

\* shared_ptr()
SharedDefault(i) ==
    /\ i \notin shared_live
    /\ shared_live' = shared_live \cup {i}
    /\ shared_m_object' = [shared_m_object EXCEPT ![i] = Null]
    /\ shared_m_use_count' = [shared_m_use_count EXCEPT ![i] = Null]
    /\ last' = Call("shared_ptr", "default", i, Null)
    /\ UNCHANGED thread_vars
    /\ UNCHANGED <<next_obj, next_cell, cell_val, cell_deletes, obj_deletes>>
    /\ UNCHANGED unique_vars

\* shared_ptr(object_type* pointer), also as called by make_shared
SharedFromPointer(i, p) ==
    /\ i \notin shared_live
    /\ next_cell <= MaxCell
    /\ shared_live' = shared_live \cup {i}
    /\ shared_m_object' = [shared_m_object EXCEPT ![i] = p]
    /\ shared_m_use_count' = [shared_m_use_count EXCEPT ![i] = next_cell]
    /\ SetHeap(new_use_count(Heap, next_cell))
    /\ next_cell' = next_cell + 1
    /\ next_obj' = AfterNew(p)
    /\ last' = Call("shared_ptr", "from_pointer", i, Null)
    /\ UNCHANGED thread_vars
    /\ UNCHANGED unique_vars

\* shared_ptr(const shared_ptr& other)
SharedCopyConstruct(i, j, g) ==
    /\ i \notin shared_live
    /\ j \in shared_live
    /\ shared_live' = shared_live \cup {i}
    /\ shared_m_object' = [shared_m_object EXCEPT ![i] = shared_m_object[j]]
    /\ shared_m_use_count' =
           [shared_m_use_count EXCEPT ![i] = shared_m_use_count[j]]
    /\ SetHeap(increment_use_count(Heap, shared_m_use_count[j], g))
    /\ last' = Call("shared_ptr", "copy_construct", i, j)
    /\ UNCHANGED thread_vars
    /\ UNCHANGED <<next_obj, next_cell>>
    /\ UNCHANGED unique_vars

\* shared_ptr(shared_ptr&& other)
SharedMoveConstruct(i, j) ==
    /\ i \notin shared_live
    /\ j \in shared_live
    /\ shared_live' = shared_live \cup {i}
    /\ shared_m_object' = shared_take(shared_m_object, i, j)
    /\ shared_m_use_count' = shared_take(shared_m_use_count, i, j)
    /\ last' = Call("shared_ptr", "move_construct", i, j)
    /\ UNCHANGED thread_vars
    /\ UNCHANGED <<next_obj, next_cell, cell_val, cell_deletes, obj_deletes>>
    /\ UNCHANGED unique_vars

\* ~shared_ptr().  The fields of a destroyed instance no longer exist; the
\* slot keeps Null in them.
SharedDestroy(i, g) ==
    /\ i \in shared_live
    /\ SetHeap(decrement_use_count(Heap, shared_m_object[i],
                                   shared_m_use_count[i], g))
    /\ shared_live' = shared_live \ {i}
    /\ shared_m_object' = [shared_m_object EXCEPT ![i] = Null]
    /\ shared_m_use_count' = [shared_m_use_count EXCEPT ![i] = Null]
    /\ last' = Call("shared_ptr", "destroy", i, Null)
    /\ UNCHANGED thread_vars
    /\ UNCHANGED <<next_obj, next_cell>>
    /\ UNCHANGED unique_vars

\* reset()
SharedReset(i, g) ==
    /\ i \in shared_live
    /\ SetHeap(decrement_use_count(Heap, shared_m_object[i],
                                   shared_m_use_count[i], g))
    /\ shared_m_object' = [shared_m_object EXCEPT ![i] = Null]
    /\ shared_m_use_count' = [shared_m_use_count EXCEPT ![i] = Null]
    /\ last' = Call("shared_ptr", "reset", i, Null)
    /\ UNCHANGED thread_vars
    /\ UNCHANGED <<shared_live, next_obj, next_cell>>
    /\ UNCHANGED unique_vars

\* reset(object_type* pointer)
SharedResetPointer(i, p, g) ==
    /\ i \in shared_live
    /\ next_cell <= MaxCell
    /\ SetHeap(new_use_count(
           decrement_use_count(Heap, shared_m_object[i],
                               shared_m_use_count[i], g),
           next_cell))
    /\ shared_m_object' = [shared_m_object EXCEPT ![i] = p]
    /\ shared_m_use_count' = [shared_m_use_count EXCEPT ![i] = next_cell]
    /\ next_cell' = next_cell + 1
    /\ next_obj' = AfterNew(p)
    /\ last' = Call("shared_ptr", "reset_pointer", i, Null)
    /\ UNCHANGED thread_vars
    /\ UNCHANGED shared_live
    /\ UNCHANGED unique_vars

\* operator=(const shared_ptr& other); other may be *this (i = j).  g is
\* what the decrement reads from a released cell, h what the increment reads.
SharedCopyAssign(i, j, g, h) ==
    /\ i \in shared_live
    /\ j \in shared_live
    /\ SetHeap(increment_use_count(
           decrement_use_count(Heap, shared_m_object[i],
                               shared_m_use_count[i], g),
           shared_m_use_count[j], h))
    /\ shared_m_object' = [shared_m_object EXCEPT ![i] = shared_m_object[j]]
    /\ shared_m_use_count' =
           [shared_m_use_count EXCEPT ![i] = shared_m_use_count[j]]
    /\ last' = Call("shared_ptr", "copy_assign", i, j)
    /\ UNCHANGED thread_vars
    /\ UNCHANGED <<shared_live, next_obj, next_cell>>
    /\ UNCHANGED unique_vars

\* operator=(shared_ptr&& other); other may be *this (i = j).
SharedMoveAssign(i, j, g) ==
    /\ i \in shared_live
    /\ j \in shared_live
    /\ SetHeap(decrement_use_count(Heap, shared_m_object[i],
                                   shared_m_use_count[i], g))
    /\ shared_m_object' = shared_take(shared_m_object, i, j)
    /\ shared_m_use_count' = shared_take(shared_m_use_count, i, j)
    /\ last' = Call("shared_ptr", "move_assign", i, j)
    /\ UNCHANGED thread_vars
    /\ UNCHANGED <<shared_live, next_obj, next_cell>>
    /\ UNCHANGED unique_vars

\* What a read of *m_use_count through the counter field c can yield beyond
\* the stored value: anything once the cell is released (or about to be, by
\* the decrement of the same call through the field d), nothing otherwise.
Reads(c, d) ==
    IF c # Null /\ (cell_deletes[c] > 0 \/ c = d) THEN Garbage ELSE {0}

\* Every call a single-threaded client can make on shared_ptr instances.
SharedNext ==
    \/ \E i \in Inst : SharedDefault(i)
    \/ \E i \in Inst : \E p \in Pointers : SharedFromPointer(i, p)
    \/ \E i, j \in Inst : \E g \in Reads(shared_m_use_count[j], Null) :
           SharedCopyConstruct(i, j, g)
    \/ \E i, j \in Inst : SharedMoveConstruct(i, j)
    \/ \E i \in Inst : \E g \in Reads(shared_m_use_count[i], Null) :
           SharedDestroy(i, g)
    \/ \E i \in Inst : \E g \in Reads(shared_m_use_count[i], Null) :
           SharedReset(i, g)
    \/ \E i \in Inst : \E p \in Pointers :
           \E g \in Reads(shared_m_use_count[i], Null) :
               SharedResetPointer(i, p, g)
    \/ \E i, j \in Inst :
           \E g \in Reads(shared_m_use_count[i], Null) :
               \E h \in Reads(shared_m_use_count[j], shared_m_use_count[i]) :
                   SharedCopyAssign(i, j, g, h)
    \/ \E i, j \in Inst : \E g \in Reads(shared_m_use_count[i], Null) :
           SharedMoveAssign(i, j, g)

SharedSpec == Init /\ [][SharedNext]_vars

\* The same calls, with both assignments only between two distinct instances.
SharedDistinctNext ==
    \/ \E i \in Inst : SharedDefault(i)
    \/ \E i \in Inst : \E p \in Pointers : SharedFromPointer(i, p)
    \/ \E i, j \in Inst : \E g \in Reads(shared_m_use_count[j], Null) :
           SharedCopyConstruct(i, j, g)
    \/ \E i, j \in Inst : SharedMoveConstruct(i, j)
    \/ \E i \in Inst : \E g \in Reads(shared_m_use_count[i], Null) :
           SharedDestroy(i, g)
    \/ \E i \in Inst : \E g \in Reads(shared_m_use_count[i], Null) :
           SharedReset(i, g)
    \/ \E i \in Inst : \E p \in Pointers :
           \E g \in Reads(shared_m_use_count[i], Null) :
               SharedResetPointer(i, p, g)
    \/ \E i \in Inst : \E j \in Inst \ {i} :
           \E g \in Reads(shared_m_use_count[i], Null) :
               \E h \in Reads(shared_m_use_count[j], shared_m_use_count[i]) :
                   SharedCopyAssign(i, j, g, h)
    \/ \E i \in Inst : \E j \in Inst \ {i} :
           \E g \in Reads(shared_m_use_count[i], Null) :
               SharedMoveAssign(i, j, g)

SharedDistinctSpec == Init /\ [][SharedDistinctNext]_vars

\* ------------------------------------------------------- unique_ptr calls
\* The field copy and the clearing of the moved-from instance, in the order
\* the move operations perform them: with i = j the clearing comes last.
unique_take_keep(f, i, j) == [f EXCEPT ![i] = f[j]]
unique_take(f, i, j) == [[f EXCEPT ![i] = f[j]] EXCEPT ![j] = Null]

\* unique_ptr()
UniqueDefault(i) ==
    /\ i \notin unique_live
    /\ unique_live' = unique_live \cup {i}
    /\ unique_m_object' = [unique_m_object EXCEPT ![i] = Null]
    /\ last' = Call("unique_ptr", "default", i, Null)
    /\ UNCHANGED thread_vars
    /\ UNCHANGED <<next_obj, obj_deletes>>
    /\ UNCHANGED shared_vars

\* unique_ptr(object_type* pointer), also as called by make_unique
UniqueFromPointer(i, p) ==
    /\ i \notin unique_live
    /\ unique_live' = unique_live \cup {i}
    /\ unique_m_object' = [unique_m_object EXCEPT ![i] = p]
    /\ next_obj' = AfterNew(p)
    /\ last' = Call("unique_ptr", "from_pointer", i, Null)
    /\ UNCHANGED thread_vars
    /\ UNCHANGED obj_deletes
    /\ UNCHANGED shared_vars

\* unique_ptr(unique_ptr&& other)
UniqueMoveConstruct(i, j) ==
    /\ i \notin unique_live
    /\ j \in unique_live
    /\ unique_live' = unique_live \cup {i}
    /\ unique_m_object' = unique_take(unique_m_object, i, j)
    /\ last' = Call("unique_ptr", "move_construct", i, j)
    /\ UNCHANGED thread_vars
    /\ UNCHANGED <<next_obj, obj_deletes>>
    /\ UNCHANGED shared_vars

\* ~unique_ptr().  The field of a destroyed instance no longer exists; the
\* slot keeps Null in it.
UniqueDestroy(i) ==
    /\ i \in unique_live
    /\ obj_deletes' = delete_object(Heap, unique_m_object[i]).odel
    /\ unique_live' = unique_live \ {i}
    /\ unique_m_object' = [unique_m_object EXCEPT ![i] = Null]
    /\ last' = Call("unique_ptr", "destroy", i, Null)
    /\ UNCHANGED thread_vars
    /\ UNCHANGED next_obj
    /\ UNCHANGED shared_vars

\* reset()
UniqueReset_dangling(i) ==
    /\ i \in unique_live
    /\ obj_deletes' = delete_object(Heap, unique_m_object[i]).odel
    /\ last' = Call("unique_ptr", "reset", i, Null)
    /\ UNCHANGED thread_vars
    /\ UNCHANGED <<unique_live, unique_m_object, next_obj>>
    /\ UNCHANGED shared_vars
UniqueReset(i) ==
    /\ i \in unique_live
    /\ obj_deletes' = delete_object(Heap, unique_m_object[i]).odel
    /\ unique_m_object' = [unique_m_object EXCEPT ![i] = Null]
    /\ last' = Call("unique_ptr", "reset", i, Null)
    /\ UNCHANGED thread_vars
    /\ UNCHANGED <<unique_live, next_obj>>
    /\ UNCHANGED shared_vars

\* reset(object_type* pointer)
UniqueResetPointer(i, p) ==
    /\ i \in unique_live
    /\ obj_deletes' = delete_object(Heap, unique_m_object[i]).odel
    /\ unique_m_object' = [unique_m_object EXCEPT ![i] = p]
    /\ next_obj' = AfterNew(p)
    /\ last' = Call("unique_ptr", "reset_pointer", i, Null)
    /\ UNCHANGED thread_vars
    /\ UNCHANGED unique_live
    /\ UNCHANGED shared_vars

\* operator=(unique_ptr&& other); other may be *this (i = j).
UniqueMoveAssign(i, j) ==
    /\ i \in unique_live
    /\ j \in unique_live
    /\ obj_deletes' = delete_object(Heap, unique_m_object[i]).odel
    /\ unique_m_object' = unique_take(unique_m_object, i, j)
    /\ last' = Call("unique_ptr", "move_assign", i, j)
    /\ UNCHANGED thread_vars
    /\ UNCHANGED <<unique_live, next_obj>>
    /\ UNCHANGED shared_vars

\* Every call a client can make on unique_ptr instances.
UniqueNext ==
    \/ \E i \in Inst : UniqueDefault(i)
    \/ \E i \in Inst : \E p \in Pointers : UniqueFromPointer(i, p)
    \/ \E i, j \in Inst : UniqueMoveConstruct(i, j)
    \/ \E i \in Inst : UniqueDestroy(i)
    \/ \E i \in Inst : UniqueReset(i)
    \/ \E i \in Inst : \E p \in Pointers : UniqueResetPointer(i, p)
    \/ \E i, j \in Inst : UniqueMoveAssign(i, j)

UniqueSpec == Init /\ [][UniqueNext]_vars

\* ------------------------------------------------------------ either class
\* The two classes share no state: every call of one leaves the fields of the
\* other's instances, and the objects they hold, as they are.  A client of
\* the library is modelled here as using one of the two classes, whichever
\* its first call picks: the calls of SharedDistinctNext, or those of
\* UniqueNext.
SharedClient == last.cls # "unique_ptr"
UniqueClient == last.cls # "shared_ptr"

EitherNext ==
    \/ SharedClient /\
       \E i \in Inst : SharedDefault(i)
    \/ SharedClient /\
       \E i \in Inst : \E p \in Pointers : SharedFromPointer(i, p)
    \/ SharedClient /\
       \E i, j \in Inst : \E g \in Reads(shared_m_use_count[j], Null) :
           SharedCopyConstruct(i, j, g)
    \/ SharedClient /\
       \E i, j \in Inst : SharedMoveConstruct(i, j)
    \/ SharedClient /\
       \E i \in Inst : \E g \in Reads(shared_m_use_count[i], Null) :
           SharedDestroy(i, g)
    \/ SharedClient /\
       \E i \in Inst : \E g \in Reads(shared_m_use_count[i], Null) :
           SharedReset(i, g)
    \/ SharedClient /\
       \E i \in Inst : \E p \in Pointers :
           \E g \in Reads(shared_m_use_count[i], Null) :
               SharedResetPointer(i, p, g)
    \/ SharedClient /\
       \E i \in Inst : \E j \in Inst \ {i} :
           \E g \in Reads(shared_m_use_count[i], Null) :
               \E h \in Reads(shared_m_use_count[j], shared_m_use_count[i]) :
                   SharedCopyAssign(i, j, g, h)
    \/ SharedClient /\
       \E i \in Inst : \E j \in Inst \ {i} :
           \E g \in Reads(shared_m_use_count[i], Null) :
               SharedMoveAssign(i, j, g)
    \/ UniqueClient /\
       \E i \in Inst : UniqueDefault(i)
    \/ UniqueClient /\
       \E i \in Inst : \E p \in Pointers : UniqueFromPointer(i, p)
    \/ UniqueClient /\
       \E i, j \in Inst : UniqueMoveConstruct(i, j)
    \/ UniqueClient /\
       \E i \in Inst : UniqueDestroy(i)
    \/ UniqueClient /\
       \E i \in Inst : UniqueReset(i)
    \/ UniqueClient /\
       \E i \in Inst : \E p \in Pointers : UniqueResetPointer(i, p)
    \/ UniqueClient /\
       \E i, j \in Inst : UniqueMoveAssign(i, j)

EitherSpec == Init /\ [][EitherNext]_vars

\* ----------------------------------------------------------- two threads
\* A client that builds aliases and then copies and destroys them from two
\* threads without a lock.  ++(*m_use_count) and --(*m_use_count) are a load
\* of the cell into a register and a store of the register's new value; the
\* other thread can run between the two.

AllIdle == \A t \in Thread : thread[t].pc = "idle"

\* No other thread is inside a call on instance i.
Free(t, i) == \A u \in Thread \ {t} : thread[u].self # i

\* Another thread is between its load and its store of cell c.
Racing(t, c) ==
    \E u \in Thread \ {t} :
        /\ thread[u].pc # "idle"
        /\ shared_m_use_count[thread[u].self] = c

\* The store of ++(*m_use_count), r being the value loaded.
increment_write_lost(H, c, r) == H
increment_write(H, c, r) == Store(H, c, (r + 1) % SizeMod)

\* The store of --(*m_use_count), r being the value loaded, and the deletes
\* that follow it when the stored value is 0.
decrement_write(H, o, c, r) ==
    LET v == (r + SizeMod - 1) % SizeMod
        H1 == Store(H, c, v)
    IN  IF v = 0
        THEN delete_use_count(delete_object(H1, o), c)
        ELSE H1

\* shared_ptr(const shared_ptr& other) up to the load of the counter.  The
\* client makes no further copy once two accesses have overlapped: every
\* later overlap can push the counter further from the number of aliases.
ThreadCopyRead(t, i, j, g) ==
    LET c == shared_m_use_count[j]
    IN  /\ thread[t].pc = "idle"
        /\ ~ raced
        /\ i \notin shared_live
        /\ j \in shared_live
        /\ Free(t, i)
        /\ Free(t, j)
        /\ shared_live' = shared_live \cup {i}
        /\ shared_m_object' = [shared_m_object EXCEPT ![i] = shared_m_object[j]]
        /\ shared_m_use_count' = [shared_m_use_count EXCEPT ![i] = c]
        /\ IF c = Null
           THEN UNCHANGED thread_vars
           ELSE /\ thread' = [thread EXCEPT ![t] =
                        [pc |-> "inc_write", self |-> i,
                         tmp |-> Deref(Heap, c, g)]]
                /\ raced' = (raced \/ Racing(t, c))
        /\ last' = Call("shared_ptr", "copy_read", i, j)
        /\ UNCHANGED <<next_obj, next_cell, cell_val, cell_deletes,
                       obj_deletes>>
        /\ UNCHANGED unique_vars

\* The store that ends the copy constructor.
ThreadCopyWrite(t) ==
    LET i == thread[t].self
    IN  /\ thread[t].pc = "inc_write"
        /\ SetHeap(increment_write(Heap, shared_m_use_count[i],
                                   thread[t].tmp))
        /\ thread' = [thread EXCEPT ![t] = Idle]
        /\ last' = Call("shared_ptr", "copy_write", i, Null)
        /\ UNCHANGED <<shared_live, shared_m_object, shared_m_use_count,
                       next_obj, next_cell, raced>>
        /\ UNCHANGED unique_vars

\* ~shared_ptr() up to the load of the counter.
ThreadDestroyRead(t, i, g) ==
    LET c == shared_m_use_count[i]
    IN  /\ thread[t].pc = "idle"
        /\ i \in shared_live
        /\ Free(t, i)
        /\ IF c = Null
           THEN /\ shared_live' = shared_live \ {i}
                /\ UNCHANGED thread_vars
           ELSE /\ thread' = [thread EXCEPT ![t] =
                        [pc |-> "dec_write", self |-> i,
                         tmp |-> Deref(Heap, c, g)]]
                /\ raced' = (raced \/ Racing(t, c))
                /\ UNCHANGED shared_live
        /\ last' = Call("shared_ptr", "destroy_read", i, Null)
        /\ UNCHANGED <<shared_m_object, shared_m_use_count, next_obj,
                       next_cell, cell_val, cell_deletes, obj_deletes>>
        /\ UNCHANGED unique_vars

\* The store that ends the destructor, with the deletes when it stores 0.
ThreadDestroyWrite(t) ==
    LET i == thread[t].self
    IN  /\ thread[t].pc = "dec_write"
        /\ SetHeap(decrement_write(Heap, shared_m_object[i],
                                   shared_m_use_count[i], thread[t].tmp))
        /\ shared_live' = shared_live \ {i}
        /\ shared_m_object' = [shared_m_object EXCEPT ![i] = Null]
        /\ shared_m_use_count' = [shared_m_use_count EXCEPT ![i] = Null]
        /\ thread' = [thread EXCEPT ![t] = Idle]
        /\ last' = Call("shared_ptr", "destroy_write", i, Null)
        /\ UNCHANGED <<next_obj, next_cell, raced>>
        /\ UNCHANGED unique_vars

ThreadNext ==
    \/ AllIdle /\
       \E i \in Inst : \E p \in Pointers \ {Null} : SharedFromPointer(i, p)
    \/ \E t \in Thread : \E i \in Inst : \E j \in Inst \ {i} :
       \E g \in Reads(shared_m_use_count[j], Null) :
           ThreadCopyRead(t, i, j, g)
    \/ \E t \in Thread : ThreadCopyWrite(t)
    \/ \E t \in Thread : \E i \in Inst :
       \E g \in Reads(shared_m_use_count[i], Null) :
           ThreadDestroyRead(t, i, g)
    \/ \E t \in Thread : ThreadDestroyWrite(t)

ThreadSpec == Init /\ [][ThreadNext]_vars

\* ----------------------------------------------------------------- claims
\* The live shared_ptr instances that reference the object instance i does.
Aliases(i) == {j \in shared_live : shared_m_object[j] = shared_m_object[i]}

\* The objects handed to an owner so far.
Wrapped == {o \in Obj : o < next_obj}

SharedCall(l, ops) == l.cls = "shared_ptr" /\ l.op \in ops
UniqueCall(l, ops) == l.cls = "unique_ptr" /\ l.op \in ops

\* C1: with assignments only between distinct instances, use_count() of every
\* live non-empty shared_ptr equals the number of live shared_ptr instances
\* that reference the same object.
C1_UseCountIsAliasCount ==
    \A i \in shared_live :
        shared_bool(i) =>
            \A g \in Garbage : use_count(i, g) = Cardinality(Aliases(i))

\* Two instances share one object with count 2 while a third owns another
\* object alone.
C1_Witness ==
    \E i, j, k \in shared_live :
        /\ i # j
        /\ shared_bool(i)
        /\ shared_m_object[j] = shared_m_object[i]
        /\ shared_bool(k)
        /\ shared_m_object[k] # shared_m_object[i]
        /\ use_count(i, 0) = 2
        /\ use_count(k, 0) = 1

\* C2: over any sequence of calls every wrapped object is deleted at most
\* once, and it is deleted exactly when no live shared_ptr references it any
\* more: neither before its last alias is gone nor later than that.
C2_DestroyedOnceAtLastAlias ==
    \A o \in Wrapped :
        /\ obj_deletes[o] <= 1
        /\ (obj_deletes[o] = 1) <=>
               ~ \E i \in shared_live : shared_m_object[i] = o

\* C3: a = a on a non-empty shared_ptr whose object and counter are intact
\* leaves both fields, the counter's value and the object as they were:
\* nothing is deleted.
C3_CopySelfAssignKeepsOwnership ==
    [][
        LET i == last'.self
            o == shared_m_object[i]
            c == shared_m_use_count[i]
        IN  ( /\ SharedCall(last', {"copy_assign"})
              /\ last'.self = last'.other
              /\ o # Null
              /\ c # Null
              /\ cell_deletes[c] = 0
              /\ obj_deletes[o] = 0 )
            => /\ shared_m_object'[i] = o
               /\ shared_m_use_count'[i] = c
               /\ cell_val'[c] = cell_val[c]
               /\ cell_deletes'[c] = 0
               /\ obj_deletes'[o] = 0
    ]_vars

\* What every move between two distinct shared_ptr instances does besides
\* the counter: the source is left empty and the destination references the
\* source's former object through the source's former counter.
MoveTransfers(i, j) ==
    /\ shared_m_object'[j] = Null
    /\ shared_m_use_count'[j] = Null
    /\ ~ shared_bool(j)'
    /\ \A g \in Garbage : use_count(j, g)' = 0
    /\ shared_m_object'[i] = shared_m_object[j]
    /\ shared_m_use_count'[i] = shared_m_use_count[j]

\* A counter cell that exists before and after a step holds more after it only
\* if the step is a copy.
IncrementOnlyByCopy ==
    \A c \in Cell :
        (c < next_cell /\ cell_val'[c] > cell_val[c])
            => SharedCall(last', {"copy_construct", "copy_assign"})

\* C4 as stated: a move between distinct instances leaves the source empty,
\* hands its object to the destination and, when the source held an object,
\* leaves the counter of that object exactly as it was; counters are
\* incremented by copies only.
C4_MoveKeepsCounter ==
    [][
        /\ \A i \in Inst : \A j \in Inst \ {i} :
               LET c == shared_m_use_count[j]
               IN  ( /\ SharedCall(last', {"move_construct", "move_assign"})
                     /\ last'.self = i
                     /\ last'.other = j )
                   => /\ MoveTransfers(i, j)
                      /\ (shared_m_object[j] # Null /\ c # Null) =>
                             ( /\ cell_val'[c] = cell_val[c]
                               /\ cell_deletes'[c] = cell_deletes[c] )
        /\ IncrementOnlyByCopy
    ]_vars

\* C4 as amended: as above, except that a move-assign whose destination
\* already referenced the same counter releases that reference, so that the
\* counter ends one lower (and is not released).
C4_MoveKeepsCounterUnlessAliased ==
    [][
        /\ \A i \in Inst : \A j \in Inst \ {i} :
               LET c == shared_m_use_count[j]
                   aliased == /\ last'.op = "move_assign"
                              /\ shared_m_use_count[i] = c
               IN  ( /\ SharedCall(last', {"move_construct", "move_assign"})
                     /\ last'.self = i
                     /\ last'.other = j )
                   => /\ MoveTransfers(i, j)
                      /\ c # Null =>
                             ( /\ cell_val'[c] + (IF aliased THEN 1 ELSE 0)
                                      = cell_val[c]
                               /\ cell_deletes'[c] = cell_deletes[c] )
        /\ IncrementOnlyByCopy
    ]_vars

\* A move-assign has released the destination's object 1 and handed it
\* object 2, whose counter is still 1; the source is empty.
C4_Witness ==
    /\ SharedCall(last, {"move_assign"})
    /\ last.self # last.other
    /\ obj_deletes[1] = 1
    /\ shared_m_object[last.self] = 2
    /\ use_count(last.self, 0) = 1
    /\ ~ shared_bool(last.other)

\* No two live unique_ptr instances hold the same object.
AtMostOneOwner ==
    \A i, j \in unique_live :
        (i # j /\ unique_bool(i)) => unique_m_object[i] # unique_m_object[j]

\* C5: in every state reached, at most one live unique_ptr holds any given
\* object, and a move between two instances leaves the source empty and the
\* destination the only holder of the source's former object.
C5_ExclusiveOwnership ==
    [][
        /\ AtMostOneOwner'
        /\ \A i \in Inst : \A j \in Inst \ {i} :
               LET o == unique_m_object[j]
               IN  ( /\ UniqueCall(last', {"move_construct", "move_assign"})
                     /\ last'.self = i
                     /\ last'.other = j )
                   => /\ unique_m_object'[j] = Null
                      /\ ~ unique_bool(j)'
                      /\ unique_m_object'[i] = o
                      /\ i \in unique_live'
                      /\ \A k \in Inst \ {i} :
                             o # Null => unique_m_object'[k] # o
    ]_vars

\* A move-assign has handed a non-empty owner's object to another instance
\* while a third instance owns a different object.
C5_Witness ==
    /\ UniqueCall(last, {"move_assign"})
    /\ last.self # last.other
    /\ unique_bool(last.self)
    /\ ~ unique_bool(last.other)
    /\ \E k \in unique_live \ {last.self, last.other} : unique_bool(k)

\* Every object handed to a unique_ptr is deleted at most once, and is
\* deleted exactly when no live unique_ptr holds it.
OwnedIffAlive ==
    \A o \in Wrapped :
        /\ obj_deletes[o] <= 1
        /\ (obj_deletes[o] = 1) <=>
               ~ \E i \in unique_live : unique_m_object[i] = o

\* C6: reset(), reset(pointer), move-assign and destruction delete the object
\* the owner held before the call; in every state reached each object is
\* deleted exactly once if no owner holds it and not at all otherwise.
C6_ReleasedExactlyOnce ==
    [][
        LET i == last'.self
            o == unique_m_object[i]
        IN  /\ OwnedIffAlive'
            /\ ( /\ UniqueCall(last', {"reset", "reset_pointer",
                                       "move_assign", "destroy"})
                 /\ o # Null )
                => /\ obj_deletes[o] = 0
                   /\ obj_deletes'[o] = 1
    ]_vars

\* A move-assign into a non-empty owner: object 1 is deleted and the
\* destination now holds object 2.
C6_Witness ==
    /\ UniqueCall(last, {"move_assign"})
    /\ last.self # last.other
    /\ obj_deletes[1] = 1
    /\ obj_deletes[2] = 0
    /\ unique_m_object[last.self] = 2

\* C7: a = move(a) on a non-empty unique_ptr leaves a holding the same
\* object, and the object is not deleted.
C7_MoveSelfAssignKeepsOwnership ==
    [][
        LET i == last'.self
            o == unique_m_object[i]
        IN  ( /\ UniqueCall(last', {"move_assign"})
              /\ last'.self = last'.other
              /\ o # Null
              /\ obj_deletes[o] = 0 )
            => /\ unique_m_object'[i] = o
               /\ obj_deletes'[o] = 0
    ]_vars

\* C8: a = move(a) on a non-empty shared_ptr whose object and counter are
\* intact leaves both fields, the counter's value and the object as they were.
C8_MoveSelfAssignKeepsOwnership ==
    [][
        LET i == last'.self
            o == shared_m_object[i]
            c == shared_m_use_count[i]
        IN  ( /\ SharedCall(last', {"move_assign"})
              /\ last'.self = last'.other
              /\ o # Null
              /\ c # Null
              /\ cell_deletes[c] = 0
              /\ obj_deletes[o] = 0 )
            => /\ shared_m_object'[i] = o
               /\ shared_m_use_count'[i] = c
               /\ cell_val'[c] = cell_val[c]
               /\ cell_deletes'[c] = 0
               /\ obj_deletes'[o] = 0
    ]_vars

\* C9: every live shared_ptr has a counter exactly if it has an object, and
\* operator bool is true exactly if use_count() is positive.
C9_CounterIffObject ==
    \A i \in shared_live :
        /\ (shared_m_use_count[i] # Null) <=> (shared_m_object[i] # Null)
        /\ \A g \in Reads(shared_m_use_count[i], Null) :
               shared_bool(i) <=> (use_count(i, g) > 0)

\* C10: unique() of a live shared_ptr is false when the owner is empty; it is
\* true right after construction from a raw pointer, false on both owners
\* after a copy of a non-empty owner, and true on a non-empty owner that is
\* the only live instance referencing its object.
C10_UniqueIffSoleOwner ==
    \A i \in shared_live :
        \A g \in Reads(shared_m_use_count[i], Null) :
            /\ ~ shared_bool(i) => ~ unique(i, g)
            /\ (SharedCall(last, {"from_pointer"}) /\ last.self = i)
                   => unique(i, g)
            /\ ( /\ SharedCall(last, {"copy_construct", "copy_assign"})
                 /\ i \in {last.self, last.other}
                 /\ last.self # last.other
                 /\ shared_bool(i) )
                   => ~ unique(i, g)
            /\ (shared_bool(i) /\ Aliases(i) = {i}) => unique(i, g)

\* 1 if the counter fields c and d name the same cell, 0 otherwise.
Same(c, d) == IF c # Null /\ c = d THEN 1 ELSE 0

\* The heap after an instance dropped its reference to object oldo through
\* counter old and one more instance took a reference through counter new
\* (Null: none): old is one lower, or released together with oldo if it held
\* 1; new is one higher; every other cell and object is as it was.
HeapAfter(oldo, old, new) ==
    LET released == old # Null /\ old # new /\ cell_val[old] = 1
    IN  /\ \A c \in Cell :
               IF c = old /\ released
               THEN cell_deletes[c] = 0 /\ cell_deletes'[c] = 1
               ELSE /\ cell_deletes'[c] = cell_deletes[c]
                    /\ c < next_cell =>
                           cell_val'[c] + Same(c, old)
                               = cell_val[c] + Same(c, new)
        /\ \A o \in Obj :
               obj_deletes'[o] =
                   IF released /\ o = oldo THEN 1 ELSE obj_deletes[o]

\* C11: a = b between two instances that reference different objects, or of
\* which one is empty: a's old counter is one lower, or released together
\* with a's old object if it held 1; a has b's fields and b's counter is one
\* higher; b, every other instance, counter and object are unchanged.
C11_CopyAssignReleasesThenAliases ==
    [][
        \A i \in Inst : \A j \in Inst \ {i} :
            ( /\ SharedCall(last', {"copy_assign"})
              /\ last'.self = i
              /\ last'.other = j
              /\ \/ shared_m_object[i] # shared_m_object[j]
                 \/ shared_m_object[i] = Null
                 \/ shared_m_object[j] = Null )
            => /\ shared_m_object'[i] = shared_m_object[j]
               /\ shared_m_use_count'[i] = shared_m_use_count[j]
               /\ \A k \in Inst \ {i} :
                      /\ shared_m_object'[k] = shared_m_object[k]
                      /\ shared_m_use_count'[k] = shared_m_use_count[k]
               /\ shared_live' = shared_live
               /\ HeapAfter(shared_m_object[i], shared_m_use_count[i],
                            shared_m_use_count[j])
    ]_vars

\* A copy-assign has released the destination's object 1 with its counter
\* and made the destination the second alias of object 2.
C11_Witness ==
    /\ SharedCall(last, {"copy_assign"})
    /\ last.self # last.other
    /\ obj_deletes[1] = 1
    /\ cell_deletes[1] = 1
    /\ shared_m_object[last.self] = 2
    /\ shared_m_object[last.other] = 2
    /\ use_count(last.self, 0) = 2

\* C12: reset(pointer) with a fresh non-null pointer drops the current
\* reference (the old counter is one lower, or released together with the old
\* object if it held 1) and leaves the owner with the new object and a newly
\* allocated counter holding 1 that no other instance has; every other
\* instance keeps its fields, so the remaining aliases of the old object
\* still reference it and see its count one lower.
C12_ResetPointerTakesFreshCounter ==
    [][
        \A i \in Inst :
            ( /\ SharedCall(last', {"reset_pointer"})
              /\ last'.self = i
              /\ shared_m_object'[i] # Null )
            => /\ shared_m_object'[i] = next_obj
               /\ obj_deletes'[next_obj] = 0
               /\ shared_m_use_count'[i] = next_cell
               /\ cell_val'[next_cell] = 1
               /\ cell_deletes'[next_cell] = 0
               /\ \A g \in Garbage : use_count(i, g)' = 1
               /\ \A k \in Inst \ {i} :
                      /\ shared_m_object'[k] = shared_m_object[k]
                      /\ shared_m_use_count'[k] = shared_m_use_count[k]
                      /\ shared_m_use_count'[k] # next_cell
                      /\ ( /\ k \in shared_live
                           /\ shared_m_use_count[i] # Null
                           /\ shared_m_use_count[k] = shared_m_use_count[i] )
                         => /\ \/ shared_m_object[k] = Null
                               \/ obj_deletes'[shared_m_object[k]] = 0
                            /\ \A g \in Garbage :
                                   use_count(k, g)' + 1 = use_count(k, g)
               /\ shared_live' = shared_live
               /\ HeapAfter(shared_m_object[i], shared_m_use_count[i], Null)
    ]_vars

\* reset(pointer) has moved an instance from object 1, which another instance
\* still references with count 1, to the fresh object 2.
C12_Witness ==
    /\ SharedCall(last, {"reset_pointer"})
    /\ shared_m_object[last.self] = 2
    /\ use_count(last.self, 0) = 1
    /\ obj_deletes[1] = 0
    /\ \E k \in shared_live \ {last.self} :
           shared_m_object[k] = 1 /\ use_count(k, 0) = 1

\* UNCHANGED, of the heap.
HeapUnchanged ==
    /\ cell_val' = cell_val
    /\ cell_deletes' = cell_deletes
    /\ obj_deletes' = obj_deletes

\* A shared_ptr that has neither an object nor a count.
SharedEmpty(i) ==
    /\ ~ shared_bool(i)
    /\ \A g \in Garbage : use_count(i, g) = 0

\* C13: reset() leaves the owner empty (bool false, and use_count() 0 for a
\* shared_ptr); on an owner that is empty already it changes nothing; and a
\* second reset() of the same owner right after the first is no step at all:
\* it decrements and deletes nothing more.
C13_ResetEmptiesAndIsIdempotent ==
    [][
        \A i \in Inst :
            /\ ( SharedCall(last', {"reset"}) /\ last'.self = i )
                   => /\ SharedEmpty(i)'
                      /\ shared_m_use_count'[i] = Null
                      /\ SharedEmpty(i) =>
                             /\ HeapUnchanged
                             /\ shared_m_object' = shared_m_object
                             /\ shared_m_use_count' = shared_m_use_count
                             /\ shared_live' = shared_live
                      /\ last = last' => UNCHANGED vars
            /\ ( UniqueCall(last', {"reset"}) /\ last'.self = i )
                   => /\ ~ unique_bool(i)'
                      /\ ~ unique_bool(i) =>
                             /\ HeapUnchanged
                             /\ unique_m_object' = unique_m_object
                             /\ unique_live' = unique_live
                      /\ last = last' => UNCHANGED vars
    ]_vars

\* reset() of a shared_ptr has released object 1: the owner is empty and
\* no live instance references the object.
C13_Witness ==
    /\ SharedCall(last, {"reset"})
    /\ SharedEmpty(last.self)
    /\ obj_deletes[1] = 1
    /\ cell_deletes[1] = 1
    /\ last.self \in shared_live

\* The previous call left instance i of class cls empty: it constructed i by
\* default, reset i, or moved out of i.
LeftEmpty(cls, i) ==
    /\ last.cls = cls
    /\ \/ last.op \in {"default", "reset"} /\ last.self = i
       \/ last.op \in {"move_construct", "move_assign"} /\ last.other = i

\* C14: the destructor of an empty owner of either class changes nothing on
\* the heap: no object is deleted, no counter is released, no counter value
\* changes.  The owner is empty because its fields are null, in particular
\* right after it was default-constructed, reset or moved from.
C14_DestroyEmptyIsNoOp ==
    [][
        \A i \in Inst :
            /\ ( /\ SharedCall(last', {"destroy"})
                 /\ last'.self = i
                 /\ \/ SharedEmpty(i)
                    \/ LeftEmpty("shared_ptr", i) )
                   => /\ HeapUnchanged
                      /\ \A k \in Inst \ {i} :
                             /\ shared_m_object'[k] = shared_m_object[k]
                             /\ shared_m_use_count'[k] = shared_m_use_count[k]
            /\ ( /\ UniqueCall(last', {"destroy"})
                 /\ last'.self = i
                 /\ \/ ~ unique_bool(i)
                    \/ LeftEmpty("unique_ptr", i) )
                   => /\ HeapUnchanged
                      /\ \A k \in Inst \ {i} :
                             unique_m_object'[k] = unique_m_object[k]
    ]_vars

\* An empty shared_ptr has been destroyed while the one other live instance
\* holds object 1: the object is intact and its count is still 1.
C14_Witness ==
    /\ SharedCall(last, {"destroy"})
    /\ last.self \notin shared_live
    /\ obj_deletes[1] = 0
    /\ cell_deletes[1] = 0
    /\ Cardinality(shared_live) = 1
    /\ \E k \in shared_live :
           /\ shared_m_object[k] = 1
           /\ use_count(k, 0) = 1
    /\ next_cell = 2

\* The counter cells allocated so far.
Allocated == {c \in Cell : c < next_cell}

\* C15: every counter cell is released at most once, and exactly when no
\* live shared_ptr points to it any more; every wrapped object is deleted at
\* most once, and is deleted once every shared_ptr has been destroyed.
C15_ResourceBalance ==
    /\ \A c \in Allocated :
           /\ cell_deletes[c] <= 1
           /\ (cell_deletes[c] = 1) <=>
                  ~ \E i \in shared_live : shared_m_use_count[i] = c
    /\ \A o \in Wrapped :
           /\ obj_deletes[o] <= 1
           /\ shared_live = {} => obj_deletes[o] = 1

\* C16: between two distinct instances a and b that hold the same object,
\* a = b changes neither the counter nor any field, and a = move(b) leaves a
\* with the object, b empty and the counter exactly one lower; neither
\* releases the object or the counter, and nothing else on the heap changes.
C16_AssignBetweenAliases ==
    [][
        \A i \in Inst : \A j \in Inst \ {i} :
            LET o == shared_m_object[i]
                c == shared_m_use_count[i]
            IN  ( /\ SharedCall(last', {"copy_assign", "move_assign"})
                  /\ last'.self = i
                  /\ last'.other = j
                  /\ {i, j} \subseteq shared_live
                  /\ o # Null
                  /\ shared_m_object[j] = o )
                => /\ shared_m_use_count[j] = c
                   /\ shared_m_object'[i] = o
                   /\ shared_m_use_count'[i] = c
                   /\ obj_deletes'[o] = 0
                   /\ cell_deletes'[c] = 0
                   /\ \A d \in Cell \ {c} :
                          /\ cell_val'[d] = cell_val[d]
                          /\ cell_deletes'[d] = cell_deletes[d]
                   /\ obj_deletes' = obj_deletes
                   /\ IF last'.op = "copy_assign"
                      THEN /\ cell_val'[c] = cell_val[c]
                           /\ shared_m_object'[j] = o
                           /\ shared_m_use_count'[j] = c
                      ELSE /\ cell_val'[c] + 1 = cell_val[c]
                           /\ shared_m_object'[j] = Null
                           /\ shared_m_use_count'[j] = Null
    ]_vars

\* a = move(b) between two aliases of object 1 has left a as its only owner
\* with count 1 and b empty; the object and its counter are intact.
C16_Witness ==
    /\ SharedCall(last, {"move_assign"})
    /\ last.aliased
    /\ shared_m_object[last.self] = 1
    /\ use_count(last.self, 0) = 1
    /\ SharedEmpty(last.other)
    /\ obj_deletes[1] = 0
    /\ cell_deletes[shared_m_use_count[last.self]] = 0

\* C17: copy-construction and copy-assignment from an empty shared_ptr give
\* an empty shared_ptr (bool false, use_count() 0, unique() false), allocate
\* no counter and raise none; the copy-assignment still drops the reference
\* its destination held: that counter is one lower, or released together
\* with the object if it held 1.
C17_CopyFromEmptyIsEmpty ==
    [][
        \A i \in Inst : \A j \in Inst \ {i} :
            ( /\ SharedCall(last', {"copy_construct", "copy_assign"})
              /\ last'.self = i
              /\ last'.other = j
              /\ j \in shared_live
              /\ SharedEmpty(j) )
            => /\ SharedEmpty(i)'
               /\ \A g \in Garbage : ~ unique(i, g)'
               /\ SharedEmpty(j)'
               /\ next_cell' = next_cell
               /\ \A c \in Allocated : cell_val'[c] <= cell_val[c]
               /\ IF last'.op = "copy_construct"
                  THEN HeapUnchanged
                  ELSE HeapAfter(shared_m_object[i], shared_m_use_count[i], Null)
    ]_vars

\* a = b with b empty has released object 1, which only a held, and has left
\* a empty.
C17_Witness ==
    /\ SharedCall(last, {"copy_assign"})
    /\ last.self # last.other
    /\ SharedEmpty(last.self)
    /\ SharedEmpty(last.other)
    /\ obj_deletes[1] = 1
    /\ \A i \in shared_live : shared_m_object[i] # 1

\* The object o is in one of the states a reference count must exclude:
\* the counter of a live alias differs from the number of live aliases, o is
\* released while an alias is live, o is released twice, or o is not
\* released although no alias is left.
Bad(o) ==
    \/ \E i \in shared_live :
           /\ shared_m_object[i] = o
           /\ \/ obj_deletes[o] > 0
              \/ cell_deletes[shared_m_use_count[i]] > 0
              \/ cell_val[shared_m_use_count[i]] # Cardinality(Aliases(i))
    \/ obj_deletes[o] > 1
    \/ /\ obj_deletes[o] = 0
       /\ \A i \in shared_live : shared_m_object[i] # o

\* C18: nothing guards the counter.  With no thread inside a call, an object
\* is in a bad state only after a thread loaded the counter while the other
\* thread was between its load and its store of the same counter; such an
\* interleaving exists, and C18_Witness is a state it reaches.
C18_BadOnlyAfterOverlap ==
    AllIdle => \A o \in Wrapped : Bad(o) => raced

\* Both threads are done, and object 1 is released although an alias of it
\* is live.
C18_Witness ==
    /\ AllIdle
    /\ raced
    /\ obj_deletes[1] = 1
    /\ \E i \in shared_live : shared_m_object[i] = 1

====
